---- MODULE Spec2Model ----
(***************************************************************************)
(* Model of src/app.py: the serial <-> Socket.IO bridge.                   *)
(*                                                                         *)
(* Text is a sequence of pieces (short strings); each whitespace character *)
(* is a piece of its own, so strip() and the formatting of the command     *)
(* lines are computed, not assumed.                                        *)
(*                                                                         *)
(* The command handlers and the telemetry loops share only the variables   *)
(* ser and pcMain, which neither of them writes.  SpecDispatch and         *)
(* SpecTelemetry therefore each run the startup sequence together with one *)
(* of the two groups of threads; Spec is the whole program.                *)
(***************************************************************************)
EXTENDS Integers, Sequences, FiniteSets, TLC

VARIABLES
    pcMain,      \* position of the main thread (start_background_threads)
    serialLib,   \* TRUE iff `import serial` succeeded (serial is not None)
    ports,       \* result of serial.tools.list_ports.comports(), in order
    scanIdx,     \* index of the for-loop of init_serial_connection in ports
    tried,       \* ports passed to try_open_port so far, in order
    ser,         \* the global ser: None or the handle of the opened port
    readThread,  \* position of read_serial_thread
    fakeThread,  \* position of fake_sensor_thread
    lastRaw,     \* what the latest ser.readline() of the read loop returned
    loopPath,    \* the path the latest iteration of the read loop took
    emitted,     \* events the latest iteration of a telemetry loop has emitted
    simEmits,    \* events fake_sensor_thread has emitted, up to MaxTicks + 1
    ticks,       \* time.sleep(1) calls the simulator has completed
    iter,        \* iterations the telemetry loop has begun, up to MaxLog
    published,   \* the socketio.emit calls of the telemetry loop, in order
    inbox,       \* inbox[s]: the broadcast events session s received, in order
    pc,          \* pc[s]: position of the handler thread serving session s
    req,         \* req[s]: the request session s's handler is serving
    written,     \* written[s]: lines passed to ser.write for req[s]
    resp         \* resp[s]: events session s received since req[s] began

startupVars == <<pcMain, serialLib, ports, scanIdx, tried, ser>>
telemetryVars ==
    <<readThread, fakeThread, lastRaw, loopPath, emitted, simEmits, ticks,
      iter, published, inbox>>
dispatchVars == <<pc, req, written, resp>>
vars == <<pcMain, serialLib, ports, scanIdx, tried, ser, readThread,
          fakeThread, lastRaw, loopPath, emitted, simEmits, ticks, iter,
          published, inbox, pc, req, written, resp>>

----------------------------------------------------------------------------
\* Bounds of the model

NumSessions == 2

MaxPorts == 2

MaxState == 2

SimSpread == 1

MaxTicks == 2

MaxLog == 2

----------------------------------------------------------------------------
\* Configuration of the program

SERIAL_PORT == "COM5"

None == "None"

PortIds == {"COM5", "COM3", "COM4"}

Sessions == 1..NumSessions

----------------------------------------------------------------------------
\* Text

Whitespace == {" ", "\n", "\t", "\r"}

MinOf(S) == CHOOSE x \in S : \A y \in S : x <= y

MaxOf(S) == CHOOSE x \in S : \A y \in S : x >= y

\* str.strip(): leading and trailing whitespace removed, the inside kept
Strip(t) ==
    LET keep == {i \in 1..Len(t) : t[i] \notin Whitespace}
    IN  IF keep = {} THEN <<>> ELSE SubSeq(t, MinOf(keep), MaxOf(keep))

Digits == <<"0", "1", "2", "3", "4", "5", "6", "7", "8", "9">>

DigitChars == {Digits[i] : i \in 1..10}

DigitVal(c) == (CHOOSE i \in 1..10 : Digits[i] = c) - 1

RECURSIVE DigitsVal(_)
DigitsVal(t) ==
    IF t = <<>> THEN 0
    ELSE 10 * DigitsVal(SubSeq(t, 1, Len(t) - 1)) + DigitVal(t[Len(t)])

\* str(n) for the small non-negative n that format into a command line
IntStr(n) == Digits[n + 1]

----------------------------------------------------------------------------
\* Startup: init_serial_connection and start_background_threads

Injective(f) == \A i, j \in DOMAIN f : f[i] = f[j] => i = j

\* what comports() can return: each port at most once, in any order
PortLists ==
    {l \in UNION {[1..n -> PortIds] : n \in 0..MaxPorts} : Injective(l)}

\* `if ser:` / `if ser is None`
Truthy(h) == h # None

\* try_open_port(port); opened is whether serial.Serial(...) succeeded
try_open_port(port, opened) ==
    IF serialLib /\ opened THEN port ELSE None

\* lines 103-117: return at once without pyserial, else open the preferred
\* port.  ports and scanIdx are locals of init_serial_connection: they are
\* dropped when it returns (pcMain = "start")
init_serial_connection ==
    /\ pcMain = "init"
    /\ IF ~serialLib
       THEN /\ pcMain' = "start"
            /\ ports' = <<>>
            /\ scanIdx' = 0
            /\ UNCHANGED <<ser, tried>>
       ELSE \E opened \in BOOLEAN :
              /\ ser' = try_open_port(SERIAL_PORT, opened)
              /\ tried' = Append(tried, SERIAL_PORT)
              /\ IF ser' = None /\ serialLib
                 THEN pcMain' = "scan" /\ scanIdx' = 1 /\ ports' = ports
                 ELSE pcMain' = "start" /\ scanIdx' = 0 /\ ports' = <<>>
    /\ UNCHANGED serialLib
    /\ UNCHANGED telemetryVars
    /\ UNCHANGED dispatchVars

SkipInScan_never(port) == FALSE

\* lines 121-122: the scan passes over the preferred port
SkipInScan(port) == port = SERIAL_PORT

\* lines 120-126: one iteration of the scan over the discovered ports
scan_ports ==
    /\ pcMain = "scan"
    /\ IF scanIdx > Len(ports)
       THEN /\ pcMain' = "start"
            /\ ports' = <<>>
            /\ scanIdx' = 0
            /\ UNCHANGED <<ser, tried>>
       ELSE IF SkipInScan(ports[scanIdx])
       THEN /\ scanIdx' = scanIdx + 1
            /\ UNCHANGED <<ser, tried, pcMain, ports>>
       ELSE \E opened \in BOOLEAN :
              /\ ser' = try_open_port(ports[scanIdx], opened)
              /\ tried' = Append(tried, ports[scanIdx])
              /\ IF Truthy(ser')
                 THEN pcMain' = "start" /\ scanIdx' = 0 /\ ports' = <<>>
                 ELSE pcMain' = "scan" /\ scanIdx' = scanIdx + 1
                      /\ ports' = ports
    /\ UNCHANGED serialLib
    /\ UNCHANGED telemetryVars
    /\ UNCHANGED dispatchVars

ThreadFor_inverted(h) == IF Truthy(h) THEN "fake" ELSE "read"

\* the thread start_background_threads starts for a value of ser
ThreadFor(h) == IF Truthy(h) THEN "read" ELSE "fake"

\* lines 292-299: start exactly one background thread, then serve clients
start_background_threads ==
    /\ pcMain = "start"
    /\ readThread' = IF ThreadFor(ser) = "read" THEN "started" ELSE readThread
    /\ fakeThread' = IF ThreadFor(ser) = "fake" THEN "started" ELSE fakeThread
    /\ pcMain' = "serving"
    /\ UNCHANGED <<serialLib, ports, scanIdx, tried, ser>>
    /\ UNCHANGED <<lastRaw, loopPath, emitted, simEmits, ticks>>
    /\ UNCHANGED <<iter, published, inbox>>
    /\ UNCHANGED dispatchVars

NextStartup ==
    \/ init_serial_connection
    \/ scan_ports
    \/ start_background_threads

----------------------------------------------------------------------------
\* Client payloads: the argument `data` of handle_toggle / handle_set_auto

Payload(kind, vkind, num, lex) ==
    [kind |-> kind, vkind |-> vkind, num |-> num, lex |-> lex]

NoData == Payload("nondict", "none", 0, <<>>)

\* {"state": n}
IntPayload(n) == Payload("dict", "int", n, <<>>)

\* {"state": "<text>"}
StrPayload(t) == Payload("dict", "str", 0, t)

\* {}
EmptyPayload == Payload("dict", "missing", 0, <<>>)

Payloads ==
    {NoData, EmptyPayload}
    \cup {IntPayload(n) : n \in 0..MaxState}
    \cup {StrPayload(<<"a", "b", "c">>), StrPayload(<<" ", "2", "\n">>)}

\* int(text): surrounding whitespace ignored, optional sign, decimal digits;
\* ok is FALSE where int() raises ValueError
IntOfText(t) ==
    LET u == Strip(t)
        signed == u # <<>> /\ u[1] \in {"+", "-"}
        body == IF signed THEN SubSeq(u, 2, Len(u)) ELSE u
        valid == body # <<>> /\ \A i \in 1..Len(body) : body[i] \in DigitChars
    IN  IF ~valid THEN [ok |-> FALSE, val |-> 0]
        ELSE [ok |-> TRUE,
              val |-> IF signed /\ u[1] = "-" THEN 0 - DigitsVal(body)
                      ELSE DigitsVal(body)]

CoerceState_defaultOn(data) ==
    IF data.kind # "dict" THEN 1
    ELSE IF data.vkind = "missing" THEN 1
    ELSE IF data.vkind = "int" THEN data.num
    ELSE IF data.vkind = "str" /\ IntOfText(data.lex).ok
         THEN IntOfText(data.lex).val
    ELSE 1

\* lines 186-189: try: state = int(data.get('state', 0)) except Exception: 0
CoerceState(data) ==
    IF data.kind # "dict" THEN 0
    ELSE IF data.vkind = "missing" THEN 0
    ELSE IF data.vkind = "int" THEN data.num
    ELSE IF data.vkind = "str" /\ IntOfText(data.lex).ok
         THEN IntOfText(data.lex).val
    ELSE 0

RelayCmd_raw(state) == <<"RELAY:", IntStr(state), "\n">>

\* line 190: f"RELAY:{1 if state else 0}\n"
RelayCmd(state) == <<"RELAY:", IntStr(IF state # 0 THEN 1 ELSE 0), "\n">>

\* line 210: f"AUTO:{1 if state else 0}\n"
AutoCmd(state) == <<"AUTO:", IntStr(IF state # 0 THEN 1 ELSE 0), "\n">>

\* line 226
ManualCmd == <<"MANUAL:", "0", "\n">>

----------------------------------------------------------------------------
\* Command handlers: handle_toggle, handle_set_auto, handle_clear_manual

\* an outbound event; keys is the key set of its payload, origin the session
\* whose request the emitting handler is serving (0 for a telemetry loop)
Event(name, keys, sent, error, would_send, origin) ==
    [name |-> name, keys |-> keys, sent |-> sent, error |-> error,
     would_send |-> would_send, origin |-> origin]

NotConnected == <<"serial", " ", "not", " ", "connected">>

\* str(e) of the exceptions ser.write raises
WriteErrors == {<<"Write", " ", "timeout">>}

\* lines 195, 215: {'sent': state}
SentAck(name, state, s) == Event(name, {"sent"}, state, <<>>, <<>>, s)

\* line 231: {'ok': True}
OkAck(name, s) == Event(name, {"ok"}, 0, <<>>, <<>>, s)

WriteFailure_asAbsent(name, e, s) ==
    Event(name, {"error", "would_send"}, 0, NotConnected, <<>>, s)

\* lines 198, 218, 234: {'error': str(e)}
WriteFailure(name, e, s) == Event(name, {"error"}, 0, e, <<>>, s)

AbsentFailure_unstripped(name, cmd, s) ==
    Event(name, {"error", "would_send"}, 0, NotConnected, cmd, s)

\* lines 201, 221, 237: {'error': 'serial not connected',
\*                       'would_send': cmd.strip()}
AbsentFailure(name, cmd, s) ==
    Event(name, {"error", "would_send"}, 0, NotConnected, Strip(cmd), s)

emit_broadcast(box, sid, ev) == [t \in Sessions |-> Append(box[t], ev)]

\* flask_socketio.emit inside a handler: to the requesting session only
emit(box, sid, ev) == [box EXCEPT ![sid] = Append(@, ev)]

Request(ev, data, state, cmd) ==
    [ev |-> ev, data |-> data, state |-> state, cmd |-> cmd]

NoRequest == Request("none", NoData, 0, <<>>)

\* the event a handler answers with
AckName(ev) ==
    IF ev = "toggle_relay" THEN "relay_ack"
    ELSE IF ev = "set_auto" THEN "auto_ack"
    ELSE "manual_cleared"

DeviceAttached_always == TRUE

\* lines 191, 211, 227: `if ser:`
DeviceAttached == Truthy(ser)

\* A handler up to its call of ser.write (lines 186-193, 206-213, 226-229):
\* with a device the thread enters ser.write(cmd), without one it answers
\* the failure and returns
Dispatch(s, r) ==
    /\ pcMain = "serving"
    /\ pc[s] = "idle"
    /\ req' = [req EXCEPT ![s] = r]
    /\ IF DeviceAttached
       THEN /\ pc' = [pc EXCEPT ![s] = "writing"]
            /\ written' = [written EXCEPT ![s] = <<r.cmd>>]
            /\ resp' = [resp EXCEPT ![s] = <<>>]
       ELSE /\ pc' = pc
            /\ written' = [written EXCEPT ![s] = <<>>]
            /\ resp' = emit([resp EXCEPT ![s] = <<>>], s,
                            AbsentFailure(AckName(r.ev), r.cmd, s))
    /\ UNCHANGED startupVars
    /\ UNCHANGED telemetryVars

handle_toggle(s) ==
    \E data \in Payloads :
        Dispatch(s, Request("toggle_relay", data, CoerceState(data),
                            RelayCmd(CoerceState(data))))

handle_set_auto(s) ==
    \E data \in Payloads :
        Dispatch(s, Request("set_auto", data, CoerceState(data),
                            AutoCmd(CoerceState(data))))

handle_clear_manual(s) ==
    Dispatch(s, Request("clear_manual", NoData, 0, ManualCmd))

\* the acknowledgement of a successful write (lines 195, 215, 231)
Ack(r, s) ==
    IF r.ev = "clear_manual" THEN OkAck(AckName(r.ev), s)
    ELSE SentAck(AckName(r.ev), r.state, s)

\* ser.write returns: the acknowledgement (lines 193-195, 213-215, 229-231)
write_ok(s) ==
    /\ pc[s] = "writing"
    /\ pc' = [pc EXCEPT ![s] = "idle"]
    /\ resp' = emit(resp, s, Ack(req[s], s))
    /\ UNCHANGED <<req, written>>
    /\ UNCHANGED startupVars
    /\ UNCHANGED telemetryVars

write_raises_teardown(s) ==
    /\ pc[s] = "writing"
    /\ \E e \in WriteErrors :
         resp' = emit(resp, s, WriteFailure(AckName(req[s].ev), e, s))
    /\ pc' = [pc EXCEPT ![s] = "idle"]
    /\ ser' = None
    /\ UNCHANGED <<req, written>>
    /\ UNCHANGED <<pcMain, serialLib, ports, scanIdx, tried>>
    /\ UNCHANGED telemetryVars

write_raises_retry(s) ==
    /\ pc[s] = "writing"
    /\ Len(written[s]) < 2
    /\ written' = [written EXCEPT ![s] = Append(@, req[s].cmd)]
    /\ UNCHANGED <<pc, req, resp>>
    /\ UNCHANGED startupVars
    /\ UNCHANGED telemetryVars

\* ser.write raises: the failure (lines 196-198, 216-218, 232-234)
write_raises(s) ==
    /\ pc[s] = "writing"
    /\ \E e \in WriteErrors :
         resp' = emit(resp, s, WriteFailure(AckName(req[s].ev), e, s))
    /\ pc' = [pc EXCEPT ![s] = "idle"]
    /\ UNCHANGED <<req, written>>
    /\ UNCHANGED startupVars
    /\ UNCHANGED telemetryVars

NextDispatch ==
    \E s \in Sessions :
        \/ handle_toggle(s)
        \/ handle_set_auto(s)
        \/ handle_clear_manual(s)
        \/ write_ok(s)
        \/ write_raises(s)

----------------------------------------------------------------------------
\* Device lines and json.loads

\* a byte that is not valid UTF-8
BadByte == "<0xFF>"

IsValidByte(c) == c # BadByte

\* bytes.decode("utf-8", errors="ignore"): invalid bytes are dropped
Utf8Ignore(raw) == SelectSeq(raw, IsValidByte)

NumberToks == {"450", "55", "26.3", "48.1", "1", "123"}

StringToks ==
    {"\"mq\"", "\"soil\"", "\"temp\"", "\"hum\"", "\"relay\"", "\"extra\""}

ScalarToks == NumberToks \cup StringToks \cup {"null", "true", "false"}

\* the text of a JSON string literal
KeyName(tok) ==
    CASE tok = "\"mq\"" -> "mq"
      [] tok = "\"soil\"" -> "soil"
      [] tok = "\"temp\"" -> "temp"
      [] tok = "\"hum\"" -> "hum"
      [] tok = "\"relay\"" -> "relay"
      [] OTHER -> "extra"

IsJsonToken(c) == c \notin Whitespace

RECURSIVE ValueEnd(_, _), MembersEnd(_, _, _), ElementsEnd(_, _, _)

\* the index after the JSON value that starts at t[i]; 0 on a syntax error
ValueEnd(t, i) ==
    IF i > Len(t) THEN 0
    ELSE IF t[i] \in ScalarToks THEN i + 1
    ELSE IF t[i] = "{" THEN MembersEnd(t, i + 1, TRUE)
    ELSE IF t[i] = "[" THEN ElementsEnd(t, i + 1, TRUE)
    ELSE 0

MembersEnd(t, i, first) ==
    IF i > Len(t) THEN 0
    ELSE IF first /\ t[i] = "}" THEN i + 1
    ELSE IF t[i] \notin StringToks \/ i + 1 > Len(t) THEN 0
    ELSE IF t[i + 1] # ":" THEN 0
    ELSE LET e == ValueEnd(t, i + 2)
         IN  IF e = 0 \/ e > Len(t) THEN 0
             ELSE IF t[e] = "}" THEN e + 1
             ELSE IF t[e] = "," THEN MembersEnd(t, e + 1, FALSE)
             ELSE 0

ElementsEnd(t, i, first) ==
    IF i > Len(t) THEN 0
    ELSE IF first /\ t[i] = "]" THEN i + 1
    ELSE LET e == ValueEnd(t, i)
         IN  IF e = 0 \/ e > Len(t) THEN 0
             ELSE IF t[e] = "]" THEN e + 1
             ELSE IF t[e] = "," THEN ElementsEnd(t, e + 1, FALSE)
             ELSE 0

RECURSIVE Members(_, _)
\* the members of a well-formed object, t[i] being the start of a member or
\* the closing brace
Members(t, i) ==
    IF t[i] = "}" THEN <<>>
    ELSE LET e == ValueEnd(t, i + 2)
         IN  <<[key |-> KeyName(t[i]), val |-> SubSeq(t, i + 2, e - 1)]>>
             \o (IF t[e] = "," THEN Members(t, e + 1) ELSE <<>>)

\* a Python dict from the members in order: a repeated key keeps its last value
DictOf(ms) ==
    [k \in {ms[j].key : j \in DOMAIN ms} |->
        ms[MaxOf({j \in DOMAIN ms : ms[j].key = k})].val]

\* json.loads(line): ok is FALSE where it raises JSONDecodeError; type tells
\* a dict from every other value; keys and data are those of a dict
json_loads(line) ==
    LET t == SelectSeq(line, IsJsonToken)
        e == ValueEnd(t, 1)
    IN  IF e = 0 \/ e # Len(t) + 1
        THEN [ok |-> FALSE, type |-> "none", keys |-> {}, data |-> <<>>]
        ELSE IF t[1] = "{"
        THEN [ok |-> TRUE, type |-> "dict",
              keys |-> DOMAIN DictOf(Members(t, 2)),
              data |-> DictOf(Members(t, 2))]
        ELSE [ok |-> TRUE, type |-> "other", keys |-> {}, data |-> <<>>]

\* line 154
expected == {"mq", "soil", "temp", "hum", "relay"}

FullLine ==
    <<"{", "\"mq\"", ":", "450", ",", "\"soil\"", ":", "55", ",",
      "\"temp\"", ":", "26.3", ",", "\"hum\"", ":", "48.1", ",",
      "\"relay\"", ":", "1", "}">>

\* what ser.readline() can return (bytes); <<>> is a timeout
ReadResults ==
    { <<>>,
      FullLine \o <<"\r", "\n">>,
      <<" ">> \o FullLine \o <<"\n">>,
      <<"{", "\"relay\"", ":", "1", ",", "\"hum\"", ":", "48.1", ",",
        "\"temp\"", ":", "26.3", ",", "\"soil\"", ":", "55", ",", " ",
        "\"mq\"", ":", "450", ",", "\"extra\"", ":", "null", "}", "\n">>,
      <<"{", "\"mq\"", ":", "450", ",", "\"soil\"", ":", "55", ",",
        "\"temp\"", ":", "26.3", ",", "\"hum\"", ":", "48.1", "}", "\n">>,
      <<"{", "\"mq\"", ":", "450", ",", "\"mq\"", ":", "55", "}", "\n">>,
      <<"{", "}", "\n">>,
      <<"{", "\"mq\"", ":", "450", "\n">>,
      <<"{", "\"mq\"", ":", "450", "}", "}", "\n">>,
      <<"hello", " ", "world", "\n">>,
      <<"\t", "hello", " ", " ", "world", " ", "\r", "\n">>,
      <<"123", "\n">>,
      <<"[", "1", ",", "{", "}", "]", "\n">>,
      <<"null", "\n">>,
      <<"\"mq\"", "\n">>,
      <<"\r", "\n">>,
      <<BadByte>>,
      <<BadByte, "\n">>,
      <<BadByte, "hello", BadByte, "\n">> }

----------------------------------------------------------------------------
\* Telemetry loops: read_serial_thread and fake_sensor_thread

\* socketio.emit('sensor_update', data)
SensorUpdate(data) == [name |-> "sensor_update", data |-> data, line |-> <<>>]

\* socketio.emit('serial_line', {'line': line})
SerialLine(line) == [name |-> "serial_line", data |-> <<>>, line |-> line]

\* the events of iteration n of a telemetry loop as they are logged: the
\* iteration and the event name
Stamped(n, out) == [j \in DOMAIN out |-> [idx |-> n, name |-> out[j].name]]

socketio_emit_front(box, evs) == [s \in Sessions |-> evs \o box[s]]

\* socketio.emit(event, data) without a room (lines 156, 159, 161, 179): the
\* event goes to the channel of every session, behind the events before it
socketio_emit(box, evs) == [s \in Sessions |-> box[s] \o evs]

\* an iteration that emits the events out: the first MaxLog iterations are
\* numbered and their emits recorded, the later ones run unrecorded
Logged(out) ==
    IF iter < MaxLog
    THEN /\ iter' = iter + 1
         /\ published' = published \o Stamped(iter + 1, out)
         /\ inbox' = socketio_emit(inbox, Stamped(iter + 1, out))
    ELSE UNCHANGED <<iter, published, inbox>>

ProcessRaw_blankEmits(text) ==
    LET line == Strip(text)
        j == json_loads(line)
    IN  IF text = <<>> THEN [path |-> "timeout", out |-> <<>>]
        ELSE IF ~j.ok
             THEN [path |-> "opaque", out |-> <<SerialLine(line)>>]
        ELSE IF j.type # "dict"
             THEN [path |-> "exception", out |-> <<>>]
        ELSE IF expected \subseteq j.keys
             THEN [path |-> "telemetry", out |-> <<SensorUpdate(j.data)>>]
        ELSE [path |-> "opaque", out |-> <<SerialLine(line)>>]

\* lines 147-165: what one iteration does with the decoded text of a read:
\* the path it takes and the events it emits
ProcessRaw(text) ==
    LET line == Strip(text)
        j == json_loads(line)
    IN  IF text = <<>> THEN [path |-> "timeout", out |-> <<>>]
        ELSE IF line = <<>> THEN [path |-> "blank", out |-> <<>>]
        ELSE IF ~j.ok
             THEN [path |-> "opaque", out |-> <<SerialLine(line)>>]
        ELSE IF j.type # "dict"
             THEN [path |-> "exception", out |-> <<>>]
        ELSE IF expected \subseteq j.keys
             THEN [path |-> "telemetry", out |-> <<SensorUpdate(j.data)>>]
        ELSE [path |-> "opaque", out |-> <<SerialLine(line)>>]

\* the position of the read loop after an iteration that took a path:
\* time.sleep(0.02) after a timeout, time.sleep(1) after an exception
AfterPath(path) ==
    IF path = "timeout" THEN "sleep_backoff"
    ELSE IF path = "exception" THEN "sleep_error"
    ELSE "reading"

\* lines 137-140: the thread returns at once without a device
read_serial_thread ==
    /\ readThread = "started"
    /\ readThread' = IF ser = None THEN "returned" ELSE "reading"
    /\ UNCHANGED <<fakeThread, lastRaw, loopPath, emitted, simEmits, ticks>>
    /\ UNCHANGED <<iter, published, inbox>>
    /\ UNCHANGED startupVars
    /\ UNCHANGED dispatchVars

\* lines 142-161: one iteration of the loop whose readline() returns
read_loop ==
    /\ readThread = "reading"
    /\ \E raw \in ReadResults :
         /\ lastRaw' = raw
         /\ loopPath' = ProcessRaw(Utf8Ignore(raw)).path
         /\ emitted' = ProcessRaw(Utf8Ignore(raw)).out
         /\ readThread' = AfterPath(loopPath')
    /\ Logged(emitted')
    /\ UNCHANGED <<fakeThread, simEmits, ticks>>
    /\ UNCHANGED startupVars
    /\ UNCHANGED dispatchVars

\* lines 143, 162-165: readline() raises (a device fault)
read_raises ==
    /\ readThread = "reading"
    /\ lastRaw' = <<>>
    /\ loopPath' = "read_error"
    /\ emitted' = <<>>
    /\ readThread' = "sleep_error"
    /\ Logged(<<>>)
    /\ UNCHANGED <<fakeThread, simEmits, ticks>>
    /\ UNCHANGED startupVars
    /\ UNCHANGED dispatchVars

read_resume_backoff_only ==
    /\ readThread = "sleep_backoff"
    /\ readThread' = "reading"
    /\ UNCHANGED <<fakeThread, lastRaw, loopPath, emitted, simEmits, ticks>>
    /\ UNCHANGED <<iter, published, inbox>>
    /\ UNCHANGED startupVars
    /\ UNCHANGED dispatchVars

\* lines 145-146, 165: the sleep ends and the loop reads again
read_resume ==
    /\ readThread \in {"sleep_backoff", "sleep_error"}
    /\ readThread' = "reading"
    /\ UNCHANGED <<fakeThread, lastRaw, loopPath, emitted, simEmits, ticks>>
    /\ UNCHANGED <<iter, published, inbox>>
    /\ UNCHANGED startupVars
    /\ UNCHANGED dispatchVars

\* the draws taken from a range lo..hi: those within SimSpread of either end
Near(lo, hi) ==
    {x \in lo..hi : x <= lo + SimSpread \/ x >= hi - SimSpread}

randint_wide(lo, hi) == Near(lo, hi + 1)

\* random.randint(lo, hi): both ends included
randint(lo, hi) == Near(lo, hi)

\* random.uniform(lo, hi), in hundredths
uniform(lo, hi) ==
    {x \in lo..hi : x <= lo + 5 * SimSpread \/ x >= hi - 5 * SimSpread}

\* round(x, 1) of x in hundredths, in tenths: to nearest, an exact tie to even
round1(x) ==
    LET q == x \div 10
        r == x % 10
    IN  IF r < 5 THEN q
        ELSE IF r > 5 THEN q + 1
        ELSE IF q % 2 = 0 THEN q ELSE q + 1

\* lines 172-178: the record of one iteration; temp and hum in tenths
FakeData ==
    {[mq |-> m, soil |-> so, temp |-> round1(t), hum |-> round1(h),
      relay |-> 0] :
        m \in randint(300, 700), so \in randint(20, 80),
        t \in uniform(2200, 3000), h \in uniform(3500, 7000)}

\* lines 172-179: build one record and emit it
fake_sensor_thread ==
    /\ fakeThread \in {"started", "emitting"}
    /\ simEmits <= MaxTicks
    /\ \E data \in FakeData : emitted' = <<SensorUpdate(data)>>
    /\ simEmits' = simEmits + 1
    /\ fakeThread' = "sleeping"
    /\ Logged(emitted')
    /\ UNCHANGED <<readThread, lastRaw, loopPath, ticks>>
    /\ UNCHANGED startupVars
    /\ UNCHANGED dispatchVars

\* line 180: time.sleep(1) ends and the next iteration begins, with nothing
\* emitted yet
fake_sleep ==
    /\ fakeThread = "sleeping"
    /\ ticks < MaxTicks
    /\ ticks' = ticks + 1
    /\ fakeThread' = "emitting"
    /\ emitted' = <<>>
    /\ UNCHANGED <<readThread, lastRaw, loopPath, simEmits>>
    /\ UNCHANGED <<iter, published, inbox>>
    /\ UNCHANGED startupVars
    /\ UNCHANGED dispatchVars

NextTelemetry ==
    \/ read_serial_thread
    \/ read_loop
    \/ read_raises
    \/ read_resume
    \/ fake_sensor_thread
    \/ fake_sleep

----------------------------------------------------------------------------
Init ==
    /\ pcMain = "init"
    /\ serialLib \in BOOLEAN
    /\ ports \in (IF serialLib THEN PortLists ELSE {<<>>})
    /\ scanIdx = 0
    /\ tried = <<>>
    /\ ser = None
    /\ readThread = "none"
    /\ fakeThread = "none"
    /\ lastRaw = <<>>
    /\ loopPath = "none"
    /\ emitted = <<>>
    /\ simEmits = 0
    /\ ticks = 0
    /\ iter = 0
    /\ published = <<>>
    /\ inbox = [s \in Sessions |-> <<>>]
    /\ pc = [s \in Sessions |-> "idle"]
    /\ req = [s \in Sessions |-> NoRequest]
    /\ written = [s \in Sessions |-> <<>>]
    /\ resp = [s \in Sessions |-> <<>>]

Next == NextStartup \/ NextTelemetry \/ NextDispatch

Spec == Init /\ [][Next]_vars

\* the startup sequence and the command handlers
SpecDispatch == Init /\ [][NextStartup \/ NextDispatch]_vars

\* the startup sequence and the telemetry loops
SpecTelemetry == Init /\ [][NextStartup \/ NextTelemetry]_vars

\* SpecTelemetry with the sleeps of the read loop ending: time.sleep returns
\* and the thread is scheduled again
SpecTelemetryFair == SpecTelemetry /\ WF_vars(read_resume)

\* the clear_manual requests of the clients
NextClearManual ==
    \E s \in Sessions :
        \/ handle_clear_manual(s)
        \/ write_ok(s)
        \/ write_raises(s)

\* the startup sequence, the telemetry loops and, of the command handlers,
\* handle_clear_manual: handlers and loops running side by side
SpecBridge == Init /\ [][NextStartup \/ NextTelemetry \/ NextClearManual]_vars

----------------------------------------------------------------------------
\* The properties

\* the command line of an intent, as the wire protocol defines it
IntentLine(ev, on) ==
    IF ev = "toggle_relay" THEN <<"RELAY:", IF on THEN "1" ELSE "0", "\n">>
    ELSE IF ev = "set_auto" THEN <<"AUTO:", IF on THEN "1" ELSE "0", "\n">>
    ELSE <<"MANUAL:", "0", "\n">>

CommandLines ==
    {IntentLine(ev, on) : ev \in {"toggle_relay", "set_auto", "clear_manual"},
                          on \in BOOLEAN}

\* the request carries an integer state flag
HasIntState(r) == r.ev # "clear_manual" /\ r.data.vkind = "int"

\* the line a request stands for: by the protocol where the request names an
\* intent, else the line the handler formatted
LineOf(r) ==
    IF r.ev = "clear_manual" THEN IntentLine(r.ev, FALSE)
    ELSE IF HasIntState(r) THEN IntentLine(r.ev, r.data.num # 0)
    ELSE r.cmd

Served(s) == pc[s] = "idle" /\ req[s] # NoRequest

\* C1: without a device (ser is None) no handler ever calls ser.write: no
\* handler is inside a write and no request has a written line
C1_NoWriteWhenDisconnected ==
    ~Truthy(ser) =>
        \A s \in Sessions : pc[s] # "writing" /\ written[s] = <<>>

\* both sessions have had a command handled without a device
C1_Witness ==
    /\ pcMain = "serving"
    /\ ser = None
    /\ \A s \in Sessions : Served(s)
    /\ \E s \in Sessions : req[s].ev = "toggle_relay"

\* C2 (as amended): without a device every command is answered by one failure
\* with error "serial not connected" and would_send equal to the command line
\* without its newline terminator
C2_WouldSendIsStrippedLine ==
    \A s \in Sessions :
        (Served(s) /\ ~Truthy(ser)) =>
            /\ Len(resp[s]) = 1
            /\ resp[s][1].keys = {"error", "would_send"}
            /\ resp[s][1].error = NotConnected
            /\ resp[s][1].would_send \o <<"\n">> = LineOf(req[s])

\* toggle_relay {state: 1} answered without a device
C2_Witness ==
    \E s \in Sessions :
        /\ Served(s)
        /\ ser = None
        /\ req[s].ev = "toggle_relay"
        /\ req[s].data = IntPayload(1)
        /\ resp[s][1].would_send = <<"RELAY:", "1">>

\* C2 (as claimed): the would_send field is the command line itself, newline
\* terminator included
C2_WouldSendIsWholeLine ==
    \A s \in Sessions :
        (Served(s) /\ ~Truthy(ser)) =>
            /\ Len(resp[s]) = 1
            /\ resp[s][1].error = NotConnected
            /\ resp[s][1].would_send = LineOf(req[s])

\* C3: a request is answered by exactly one event, of the request's
\* acknowledgement name, and a session only ever receives answers to its own
\* requests
C3_ExactlyOneResponseToOrigin ==
    \A s \in Sessions :
        /\ \A i \in DOMAIN resp[s] : resp[s][i].origin = s
        /\ pc[s] = "writing" => resp[s] = <<>>
        /\ Served(s) =>
             /\ Len(resp[s]) = 1
             /\ resp[s][1].name =
                  (CASE req[s].ev = "toggle_relay" -> "relay_ack"
                     [] req[s].ev = "set_auto" -> "auto_ack"
                     [] OTHER -> "manual_cleared")

\* one session was answered after a failed write, another after a successful
\* one, on payloads of different shapes
C3_Witness ==
    \E s, t \in Sessions :
        /\ s # t
        /\ Served(s) /\ Served(t)
        /\ resp[s][1].keys = {"error"}
        /\ resp[t][1].keys = {"sent"}
        /\ req[s].data.kind = "nondict"
        /\ req[t].data.vkind = "str"

\* C4: every line passed to ser.write is a command line of the protocol, and
\* for an integer state s it is the :1 form iff s # 0
C4_WrittenLineIsEncoding ==
    \A s \in Sessions :
        \A i \in DOMAIN written[s] :
            /\ written[s][i] \in CommandLines
            /\ written[s][i] = LineOf(req[s])

\* toggle_relay {state: 2} and set_auto {state: 0} written to the device
C4_Witness ==
    \E s, t \in Sessions :
        /\ req[s].ev = "toggle_relay" /\ req[s].data = IntPayload(2)
        /\ written[s] = <<(<<"RELAY:", "1", "\n">>)>>
        /\ req[t].ev = "set_auto" /\ req[t].data = IntPayload(0)
        /\ written[t] = <<(<<"AUTO:", "0", "\n">>)>>

\* the text the latest iteration of the read loop decoded and trimmed
ReadLine == Strip(Utf8Ignore(lastRaw))

\* the latest iteration of the read loop read a line that is not blank
NonBlankRead == loopPath \notin {"none", "read_error"} /\ ReadLine # <<>>

\* the line is a structured object that has the five telemetry keys
HasFiveKeys(line) ==
    json_loads(line).ok /\ expected \subseteq json_loads(line).keys

\* C5: a non-blank line with the five keys is emitted as one sensor_update
\* with the fields of the input, every other non-blank line as one
\* serial_line carrying the trimmed text
C5_DecodeSensorOrOpaque ==
    NonBlankRead =>
        IF HasFiveKeys(ReadLine)
        THEN /\ Len(emitted) = 1
             /\ emitted[1].name = "sensor_update"
             /\ emitted[1].data = json_loads(ReadLine).data
        ELSE /\ Len(emitted) = 1
             /\ emitted[1].name = "serial_line"
             /\ emitted[1].line = ReadLine

\* C6: a non-blank line yields exactly one event and never sends the loop
\* down its exception path
C6_DecodeNeverRaises ==
    NonBlankRead =>
        /\ Len(emitted) = 1
        /\ loopPath # "exception"
        /\ readThread # "sleep_error"

\* C7: after a successful write the acknowledgement of toggle_relay and
\* set_auto carries the 0/1 value that is in the written line, that of
\* clear_manual the flag ok
C7_AckCarriesAppliedState ==
    \A s \in Sessions :
        (Served(s) /\ Truthy(ser) /\ "error" \notin resp[s][1].keys) =>
            IF req[s].ev = "clear_manual"
            THEN resp[s][1].keys = {"ok"}
            ELSE /\ resp[s][1].keys = {"sent"}
                 /\ resp[s][1].sent \in {0, 1}
                 /\ written[s] = <<IntentLine(req[s].ev, resp[s][1].sent = 1)>>

IsFailure(ev) == "error" \in ev.keys

\* C8 (as amended): every failure carries a non-empty error; the failure for
\* an absent device also carries would_send, the failure of a write on a
\* connected device carries the text of the exception and nothing else
C8_FailureFields ==
    \A s \in Sessions :
        \A i \in DOMAIN resp[s] :
            IsFailure(resp[s][i]) =>
                /\ resp[s][i].error # <<>>
                /\ IF Truthy(ser)
                   THEN /\ resp[s][i].keys = {"error"}
                        /\ resp[s][i].error \in WriteErrors
                   ELSE /\ resp[s][i].keys = {"error", "would_send"}
                        /\ resp[s][i].error = NotConnected
                        /\ resp[s][i].would_send # <<>>

\* a write on a connected device has failed and was answered
C8_Witness ==
    \E s \in Sessions :
        /\ Served(s)
        /\ Truthy(ser)
        /\ written[s] # <<>>
        /\ IsFailure(resp[s][1])

\* C8 (as claimed): every failure carries both error and would_send
C8_FailureCarriesWouldSend ==
    \A s \in Sessions :
        \A i \in DOMAIN resp[s] :
            IsFailure(resp[s][i]) =>
                /\ resp[s][i].error # <<>>
                /\ "would_send" \in resp[s][i].keys

ReadRuns == readThread \notin {"none", "returned"}

FakeRuns == fakeThread # "none"

\* the thread choice of a state: at most one loop, and the loop that matches
\* the outcome of the startup open sequence
ModeMatchesStartup ==
    /\ ~(ReadRuns /\ FakeRuns)
    /\ readThread # "returned"
    /\ ReadRuns => (pcMain = "serving" /\ Truthy(ser))
    /\ FakeRuns => (pcMain = "serving" /\ ~Truthy(ser))
    /\ pcMain = "serving" => (ReadRuns <=> Truthy(ser)) /\ (FakeRuns <=> ~Truthy(ser))

\* C9: exactly one telemetry loop runs once the startup has ended, the read
\* loop iff it ended connected and the simulator iff it ended disconnected,
\* and a loop that runs keeps running while the other one never starts
C9_OneModeForever ==
    /\ []ModeMatchesStartup
    /\ [][/\ ReadRuns => (ReadRuns' /\ ~FakeRuns')
          /\ FakeRuns => (FakeRuns' /\ ~ReadRuns')]_vars

\* the read loop reads again after a device fault, the simulator not started
C9_Witness ==
    /\ readThread = "reading"
    /\ loopPath = "read_error"
    /\ fakeThread = "none"

\* C10: the simulator emits only sensor_update records with the five fields
\* in their ranges (temp and hum in tenths) and relay 0, one per sleep of one
\* time unit
C10_SimulatedRecordInRange ==
    FakeRuns =>
        /\ \A i \in DOMAIN emitted :
             /\ emitted[i].name = "sensor_update"
             /\ DOMAIN emitted[i].data = {"mq", "soil", "temp", "hum", "relay"}
             /\ emitted[i].data.mq \in 300..700
             /\ emitted[i].data.soil \in 20..80
             /\ emitted[i].data.temp \in 220..300
             /\ emitted[i].data.hum \in 350..700
             /\ emitted[i].data.relay = 0
        /\ Len(emitted) <= 1
        /\ fakeThread = "sleeping" => (simEmits = ticks + 1 /\ Len(emitted) = 1)
        /\ fakeThread = "emitting" => simEmits = ticks

\* the simulator has emitted a record at the upper ends after a full interval
C10_Witness ==
    /\ fakeThread = "sleeping"
    /\ ticks >= 1
    /\ emitted[1].data.mq = 700
    /\ emitted[1].data.soil = 20
    /\ emitted[1].data.temp = 300
    /\ emitted[1].data.hum = 350

\* the handler threads that are inside a call of ser.write
WritesInFlight == {s \in Sessions : pc[s] = "writing"}

\* C11: at most one call of ser.write on the shared handle is in flight at
\* any time
C11_WritesSerialized == Cardinality(WritesInFlight) <= 1

\* C13: the events are published in the order of the iterations that read or
\* generated them, and every session receives them in publish order
C13_PublishOrder ==
    /\ \A j \in DOMAIN published : published[j].idx \in 1..iter
    /\ \A j, k \in DOMAIN published :
         j < k => published[j].idx < published[k].idx
    /\ \A s \in Sessions : inbox[s] = published

\* the read loop has published a pass-through line and then a telemetry record
C13_Witness ==
    /\ ReadRuns
    /\ Len(published) >= 2
    /\ published[1].name = "serial_line"
    /\ published[2].name = "sensor_update"
    /\ \A s \in Sessions : Len(inbox[s]) >= 2

\* the line is a structured object whose keys are exactly the five
HasExactlyFiveKeys(line) ==
    /\ json_loads(line).ok
    /\ json_loads(line).type = "dict"
    /\ json_loads(line).keys = {"mq", "soil", "temp", "hum", "relay"}

\* C14: a line is emitted as sensor_update only when it is an object with
\* exactly the five keys; an object with any other key set, the five keys plus
\* additional ones included, is emitted as serial_line
C14_ExactlyFiveKeys ==
    NonBlankRead =>
        /\ (\E j \in DOMAIN emitted : emitted[j].name = "sensor_update")
              => HasExactlyFiveKeys(ReadLine)
        /\ (json_loads(ReadLine).type = "dict" /\ ~HasExactlyFiveKeys(ReadLine))
              => (Len(emitted) = 1 /\ emitted[1].name = "serial_line")

IsOtherPort(p) == p # "COM5"

\* the opens the sequence has made once the scan is past the first n
\* discovered ports: the preferred one, then the others in discovery order
OpensAfter(n) == <<"COM5">> \o SelectSeq(SubSeq(ports, 1, n), IsOtherPort)

\* the opens made in a state, by the position of the startup sequence
OpensInOrder ==
    /\ pcMain = "init" => (tried = <<>> /\ ser = None)
    /\ ~serialLib => (tried = <<>> /\ ser = None)
    /\ pcMain = "scan" => (ser = None /\ tried = OpensAfter(scanIdx - 1))
    /\ (pcMain \in {"start", "serving"} /\ serialLib) =>
         /\ tried # <<>> /\ tried[1] = "COM5"
         /\ \A j, k \in DOMAIN tried : tried[j] = tried[k] => j = k
         /\ Truthy(ser) => ser = tried[Len(tried)]

\* the scan ends at the first port that opens, or after every discovered port
\* other than the preferred one has failed to open
ScanEndsRight ==
    (pcMain = "scan" /\ pcMain' = "start") =>
        IF Truthy(ser')
        THEN ser' = ports[scanIdx] /\ tried' = OpensAfter(scanIdx)
        ELSE tried' = tried /\ tried = OpensAfter(Len(ports))

\* C15: the preferred port is opened first, then the discovered ports other
\* than the preferred one in discovery order; the sequence stops at the first
\* success and holds one handle; it ends disconnected iff every open failed
C15_OpenSequence ==
    /\ []OpensInOrder
    /\ [][ScanEndsRight]_vars
    /\ [][Truthy(ser) => (ser' = ser /\ tried' = tried)]_vars

\* the preferred port and the first discovered port failed, the second opened
C15_Witness ==
    /\ pcMain = "start"
    /\ tried = <<"COM5", "COM3", "COM4">>
    /\ ser = "COM4"

StartupOver == pcMain \in {"start", "serving"}

\* a write or a read has failed
WriteFailed(s) == Served(s) /\ written[s] # <<>> /\ IsFailure(resp[s][1])

ReadFailed == loopPath \in {"read_error", "exception"}

\* the state of session s's handler thread
HandlerState(s) == <<pc[s], req[s], written[s], resp[s]>>

\* C16: once the startup open sequence is over ser never changes: after a
\* failed write or a failed read the device is still attached, and a command
\* that arrives with a device attached enters ser.write
C16_ConnectionFrozen ==
    /\ [][StartupOver => ser' = ser]_vars
    /\ [](\A s \in Sessions : WriteFailed(s) => Truthy(ser))
    /\ [](ReadFailed => (Truthy(ser) /\ ReadRuns))
    /\ [][\A s \in Sessions :
            (Truthy(ser) /\ pc[s] = "idle" /\ HandlerState(s)' # HandlerState(s))
                => (pc'[s] = "writing" /\ written'[s] # <<>>)]_vars

\* after a failed read and one session's failed write another command is
\* inside ser.write
C16_Witness ==
    \E s, t \in Sessions :
        /\ WriteFailed(s)
        /\ pc[t] = "writing"
        /\ ReadFailed
        /\ Truthy(ser)

\* the write calls of the request session s's handler serves or has served
WriteCalls(s) == Len(written[s])

\* C20: a request causes exactly one call of ser.write with a device and none
\* without, also when the write fails, and only a step of a command handler
\* adds a write call, never a step of a telemetry loop
C20_OneWritePerRequest ==
    /\ [](\A s \in Sessions :
            /\ WriteCalls(s) <= 1
            /\ (req[s] # NoRequest /\ Truthy(ser)) => WriteCalls(s) = 1
            /\ ~Truthy(ser) => WriteCalls(s) = 0)
    /\ [][\A s \in Sessions :
            written'[s] # written[s] =>
                (pc[s] = "idle" /\ pc'[s] = "writing" /\ req'[s].ev # "none")]_vars
    /\ [][<<readThread, fakeThread, emitted, iter, simEmits, ticks>>'
            # <<readThread, fakeThread, emitted, iter, simEmits, ticks>>
          => written' = written]_vars

\* a request whose only write failed was answered while the read loop had
\* published events
C20_Witness ==
    \E s \in Sessions :
        /\ WriteFailed(s)
        /\ WriteCalls(s) = 1
        /\ ReadRuns
        /\ published # <<>>

\* C17: the read loop, once running, never stops, and after a read or the
\* processing of a line has raised, the loop is back at ser.readline()
C17_ReadLoopSurvivesErrors ==
    /\ [][ReadRuns => ReadRuns']_vars
    /\ [](ReadFailed => ReadRuns)
    /\ (readThread = "sleep_error") ~> (readThread = "reading")

\* the loop is reading again after a read that raised, an event having been
\* published before
C17_Witness ==
    /\ readThread = "reading"
    /\ loopPath = "read_error"
    /\ published # <<>>

\* the latest iteration of the read loop got no line: a timeout with zero
\* bytes (or bytes that decode to nothing), or a line that is blank once
\* trimmed
EmptyRead ==
    /\ ReadRuns
    /\ loopPath \notin {"none", "read_error"}
    /\ (Utf8Ignore(lastRaw) = <<>> \/ ReadLine = <<>>)

\* C18: a timeout and a blank line emit no event and are no error: the loop
\* goes on to the next read, after the short backoff at most
C18_EmptyReadIsSilent ==
    EmptyRead =>
        /\ emitted = <<>>
        /\ loopPath # "exception"
        /\ readThread \in {"reading", "sleep_backoff"}

\* a blank line was read after a line that was published
C18_Witness ==
    /\ readThread = "reading"
    /\ lastRaw = <<"\r", "\n">>
    /\ iter = 2
    /\ Len(published) = 1

\* the state flag of the payload is missing or not convertible to a number, or
\* the payload is no key/value object
NoUsableState(data) ==
    \/ data.kind # "dict"
    \/ data.vkind = "missing"
    \/ (data.vkind = "str" /\ data.lex = <<"a", "b", "c">>)

\* C19: toggle_relay and set_auto with such a payload encode the :0 command
\* and are answered as any other request: the acknowledgement with sent 0 or
\* the failure of the write with a device, the would_send failure without
C19_BadStateMeansOff ==
    \A s \in Sessions :
        (req[s].ev \in {"toggle_relay", "set_auto"} /\ NoUsableState(req[s].data))
        => /\ req[s].cmd = IntentLine(req[s].ev, FALSE)
           /\ \A j \in DOMAIN written[s] :
                written[s][j] = IntentLine(req[s].ev, FALSE)
           /\ Served(s) =>
                /\ Len(resp[s]) = 1
                /\ IF ~Truthy(ser)
                   THEN /\ resp[s][1].keys = {"error", "would_send"}
                        /\ resp[s][1].would_send \o <<"\n">>
                             = IntentLine(req[s].ev, FALSE)
                   ELSE \/ resp[s][1].keys = {"sent"} /\ resp[s][1].sent = 0
                        \/ resp[s][1].keys = {"error"}

\* set_auto with a text state and toggle_relay without a key/value payload,
\* both acknowledged with sent 0
C19_Witness ==
    \E s, t \in Sessions :
        /\ Served(s) /\ Served(t)
        /\ req[s].ev = "set_auto" /\ req[s].data.vkind = "str"
        /\ NoUsableState(req[s].data)
        /\ req[t].ev = "toggle_relay" /\ req[t].data.kind = "nondict"
        /\ resp[s][1].keys = {"sent"} /\ resp[t][1].keys = {"sent"}

====
